---- MODULE Spec2Model ----
(***************************************************************************)
(* A model of src/src/App.tsx: the JSON utilities, the iframe-payload      *)
(* extractor, the webhook client and the React state of the App component  *)
(* with its event handlers.                                                *)
(*                                                                         *)
(* Text is a sequence of one-character strings.  A JavaScript value is a   *)
(* record tagged by t: null, bool, num, str, arr, obj, bigint.             *)
(***************************************************************************)
EXTENDS Integers, Sequences, FiniteSets, TLC

(***************************************************************************)
(* JavaScript values                                                       *)
(***************************************************************************)
JSNull == [t |-> "null"]

JSBool(b) == [t |-> "bool", b |-> b]

JSNum(n) == [t |-> "num", n |-> n]

JSStr(s) == [t |-> "str", s |-> s]

JSArr(items) == [t |-> "arr", items |-> items]

\* members: a sequence of [k |-> Text, v |-> value], in insertion order
JSObj(members) == [t |-> "obj", members |-> members]

\* a BigInt such as 1n: a value that no JSON text parses to
JSBigInt(n) == [t |-> "bigint", n |-> n]

\* typeof value === 'string'
IsString(value) == value.t = "str"

\* ToBoolean(value): null, false, 0 and "" are falsy, objects and arrays are truthy
Truthy(value) ==
    CASE value.t = "null" -> FALSE
      [] value.t = "bool" -> value.b
      [] value.t = "num" -> value.n # 0
      [] value.t = "str" -> value.s # <<>>
      [] OTHER -> TRUE

(***************************************************************************)
(* Text helpers                                                            *)
(***************************************************************************)
RECURSIVE Concat(_)
Concat(parts) ==
    IF parts = <<>> THEN <<>> ELSE Head(parts) \o Concat(Tail(parts))

HasAt(s, i, lit) ==
    /\ i >= 1
    /\ i + Len(lit) - 1 <= Len(s)
    /\ SubSeq(s, i, i + Len(lit) - 1) = lit

\* String.prototype.replace(/lit/g, rep): every non-overlapping occurrence,
\* scanning from the left
RECURSIVE ReplaceAllFrom(_, _, _, _)
ReplaceAllFrom(s, i, lit, rep) ==
    IF i > Len(s) THEN <<>>
    ELSE IF HasAt(s, i, lit) THEN rep \o ReplaceAllFrom(s, i + Len(lit), lit, rep)
    ELSE <<s[i]>> \o ReplaceAllFrom(s, i + 1, lit, rep)

ReplaceAll(s, lit, rep) == ReplaceAllFrom(s, 1, lit, rep)

\* White space of String.prototype.trim and of the JSON grammar, as far as the
\* alphabet of the model has it
IsWhitespace(c) == c \in {" ", "\n", "\t", "\r"}

RECURSIVE SkipWs(_, _)
SkipWs(s, i) ==
    IF i <= Len(s) /\ IsWhitespace(s[i]) THEN SkipWs(s, i + 1) ELSE i

RECURSIVE SkipWsBack(_, _)
SkipWsBack(s, j) ==
    IF j >= 1 /\ IsWhitespace(s[j]) THEN SkipWsBack(s, j - 1) ELSE j

\* String.prototype.trim
Trim(s) == SubSeq(s, SkipWs(s, 1), SkipWsBack(s, Len(s)))

(***************************************************************************)
(* JSON.parse on the subset of JSON the model's texts are written in:      *)
(* null, true, false, non-negative integers, strings with the escapes      *)
(* \n \" \\ \/, arrays and objects with distinct non-numeric keys.         *)
(* A result is [ok |-> FALSE] (JSON.parse throws SyntaxError) or           *)
(* [ok |-> TRUE, v |-> value, next |-> index after the value].             *)
(***************************************************************************)
ParseFail == [ok |-> FALSE]

ParseOk(v, next) == [ok |-> TRUE, v |-> v, next |-> next]

Digits == <<"0", "1", "2", "3", "4", "5", "6", "7", "8", "9">>

IsDigit(c) == \E d \in 1..10 : Digits[d] = c

DigitValue(c) == (CHOOSE d \in 1..10 : Digits[d] = c) - 1

RECURSIVE ParseDigits(_, _, _)
ParseDigits(s, i, acc) ==
    IF i <= Len(s) /\ IsDigit(s[i])
    THEN ParseDigits(s, i + 1, acc * 10 + DigitValue(s[i]))
    ELSE ParseOk(JSNum(acc), i)

\* a JSON number: 0, or a non-zero digit followed by digits (no leading zero)
ParseNumber(s, i) ==
    IF s[i] = "0" THEN ParseOk(JSNum(0), i + 1) ELSE ParseDigits(s, i, 0)

\* i is the index after the opening quote
RECURSIVE ParseStringBody(_, _, _)
ParseStringBody(s, i, acc) ==
    IF i > Len(s) THEN ParseFail
    ELSE IF s[i] = "\"" THEN ParseOk(JSStr(acc), i + 1)
    ELSE IF s[i] = "\\" THEN
        IF i + 1 > Len(s) THEN ParseFail
        ELSE IF s[i + 1] = "n" THEN ParseStringBody(s, i + 2, Append(acc, "\n"))
        ELSE IF s[i + 1] \in {"\"", "\\", "/"}
             THEN ParseStringBody(s, i + 2, Append(acc, s[i + 1]))
        ELSE ParseFail
    ELSE IF s[i] \in {"\n", "\t", "\r"} THEN ParseFail
    ELSE ParseStringBody(s, i + 1, Append(acc, s[i]))

RECURSIVE ParseValue(_, _)
RECURSIVE ParseElements(_, _, _)
RECURSIVE ParseMembers(_, _, _)

\* i is the index of the first character of the value (white space skipped)
ParseValue(s, i) ==
    IF i > Len(s) THEN ParseFail
    ELSE IF HasAt(s, i, <<"n", "u", "l", "l">>) THEN ParseOk(JSNull, i + 4)
    ELSE IF HasAt(s, i, <<"t", "r", "u", "e">>) THEN ParseOk(JSBool(TRUE), i + 4)
    ELSE IF HasAt(s, i, <<"f", "a", "l", "s", "e">>) THEN ParseOk(JSBool(FALSE), i + 5)
    ELSE IF IsDigit(s[i]) THEN ParseNumber(s, i)
    ELSE IF s[i] = "\"" THEN ParseStringBody(s, i + 1, <<>>)
    ELSE IF s[i] = "[" THEN
        LET j == SkipWs(s, i + 1)
        IN  IF j <= Len(s) /\ s[j] = "]" THEN ParseOk(JSArr(<<>>), j + 1)
            ELSE ParseElements(s, j, <<>>)
    ELSE IF s[i] = "{" THEN
        LET j == SkipWs(s, i + 1)
        IN  IF j <= Len(s) /\ s[j] = "}" THEN ParseOk(JSObj(<<>>), j + 1)
            ELSE ParseMembers(s, j, <<>>)
    ELSE ParseFail

\* i is the index of the first character of an element
ParseElements(s, i, acc) ==
    LET r == ParseValue(s, i)
    IN  IF ~r.ok THEN ParseFail
        ELSE LET j == SkipWs(s, r.next)
             IN  IF j > Len(s) THEN ParseFail
                 ELSE IF s[j] = "]" THEN ParseOk(JSArr(Append(acc, r.v)), j + 1)
                 ELSE IF s[j] = "," THEN ParseElements(s, SkipWs(s, j + 1), Append(acc, r.v))
                 ELSE ParseFail

\* i is the index of the opening quote of a member's key
ParseMembers(s, i, acc) ==
    IF i > Len(s) \/ s[i] # "\"" THEN ParseFail
    ELSE
        LET key == ParseStringBody(s, i + 1, <<>>)
        IN  IF ~key.ok THEN ParseFail
            ELSE
                LET c == SkipWs(s, key.next)
                IN  IF c > Len(s) \/ s[c] # ":" THEN ParseFail
                    ELSE
                        LET r == ParseValue(s, SkipWs(s, c + 1))
                        IN  IF ~r.ok THEN ParseFail
                            ELSE
                                LET j == SkipWs(s, r.next)
                                    members == Append(acc, [k |-> key.v.s, v |-> r.v])
                                IN  IF j > Len(s) THEN ParseFail
                                    ELSE IF s[j] = "}" THEN ParseOk(JSObj(members), j + 1)
                                    ELSE IF s[j] = ","
                                         THEN ParseMembers(s, SkipWs(s, j + 1), members)
                                    ELSE ParseFail

\* JSON.parse(text): the whole text is one value between optional white space
JSONParse(text) ==
    LET r == ParseValue(text, SkipWs(text, 1))
    IN  IF r.ok /\ SkipWs(text, r.next) = Len(text) + 1
        THEN [ok |-> TRUE, v |-> r.v]
        ELSE ParseFail

(***************************************************************************)
(* JSON.stringify(value, null, 2)                                          *)
(***************************************************************************)
RECURSIVE NatToText(_)
NatToText(n) ==
    IF n < 10 THEN <<Digits[n + 1]>> ELSE NatToText(n \div 10) \o <<Digits[(n % 10) + 1]>>

RECURSIVE Spaces(_)
Spaces(n) == IF n = 0 THEN <<>> ELSE <<" ">> \o Spaces(n - 1)

RECURSIVE QuoteChars(_)
QuoteChars(s) ==
    IF s = <<>> THEN <<>>
    ELSE LET c == Head(s)
         IN  (CASE c = "\"" -> <<"\\", "\"">>
                [] c = "\\" -> <<"\\", "\\">>
                [] c = "\n" -> <<"\\", "n">>
                [] OTHER -> <<c>>) \o QuoteChars(Tail(s))

Quote(s) == <<"\"">> \o QuoteChars(s) \o <<"\"">>

RECURSIVE Stringify(_, _, _)
RECURSIVE StringifyItems(_, _, _)
RECURSIVE StringifyMembers(_, _, _)

\* the serialization of value at nesting depth `depth`, `gap` spaces per level
Stringify(value, gap, depth) ==
    CASE value.t = "null" -> <<"n", "u", "l", "l">>
      [] value.t = "bool" ->
            IF value.b THEN <<"t", "r", "u", "e">> ELSE <<"f", "a", "l", "s", "e">>
      [] value.t = "num" -> NatToText(value.n)
      [] value.t = "str" -> Quote(value.s)
      [] value.t = "arr" ->
            IF value.items = <<>> THEN <<"[", "]">>
            ELSE <<"[", "\n">> \o StringifyItems(value.items, gap, depth + 1)
                 \o <<"\n">> \o Spaces(gap * depth) \o <<"]">>
      [] value.t = "obj" ->
            IF value.members = <<>> THEN <<"{", "}">>
            ELSE <<"{", "\n">> \o StringifyMembers(value.members, gap, depth + 1)
                 \o <<"\n">> \o Spaces(gap * depth) \o <<"}">>

StringifyItems(items, gap, depth) ==
    Spaces(gap * depth) \o Stringify(Head(items), gap, depth)
    \o (IF Len(items) = 1 THEN <<>>
        ELSE <<",", "\n">> \o StringifyItems(Tail(items), gap, depth))

StringifyMembers(members, gap, depth) ==
    Spaces(gap * depth) \o Quote(Head(members).k) \o <<":", " ">>
    \o Stringify(Head(members).v, gap, depth)
    \o (IF Len(members) = 1 THEN <<>>
        ELSE <<",", "\n">> \o StringifyMembers(Tail(members), gap, depth))

JSONStringify(value) == Stringify(value, 2, 0)

(***************************************************************************)
(* App.tsx: formatJson, parseJsonSafely                                    *)
(***************************************************************************)
\* JSON.stringify throws a TypeError: the value is or holds a BigInt (no value
\* read from a JSON text does)
RECURSIVE StringifyThrows(_)
StringifyThrows(value) ==
    CASE value.t = "bigint" -> TRUE
      [] value.t = "arr" ->
            \E i \in 1..Len(value.items) : StringifyThrows(value.items[i])
      [] value.t = "obj" ->
            \E i \in 1..Len(value.members) : StringifyThrows(value.members[i].v)
      [] OTHER -> FALSE

\* try { return JSON.stringify(value, null, 2) }
\* catch { return typeof value === 'string' ? value : '' }
formatJson(value) ==
    IF ~StringifyThrows(value) THEN JSONStringify(value)
    ELSE IF IsString(value) THEN value.s
    ELSE <<>>

\* a parse that stops at the end of the first value and ignores what follows
parseJsonSafelyFirstValue(text) ==
    LET r == ParseValue(text, SkipWs(text, 1))
    IN  IF r.ok THEN r.v ELSE JSNull

\* try { return JSON.parse(text) } catch { return null }
parseJsonSafely(text) ==
    LET r == JSONParse(text)
    IN  IF r.ok THEN r.v ELSE JSNull

(***************************************************************************)
(* App.tsx: extractIframeContent                                           *)
(***************************************************************************)
UpperLetters ==
    <<"A", "B", "C", "D", "E", "F", "G", "H", "I", "J", "K", "L", "M",
      "N", "O", "P", "Q", "R", "S", "T", "U", "V", "W", "X", "Y", "Z">>

LowerLetters ==
    <<"a", "b", "c", "d", "e", "f", "g", "h", "i", "j", "k", "l", "m",
      "n", "o", "p", "q", "r", "s", "t", "u", "v", "w", "x", "y", "z">>

ToLower(c) ==
    IF \E k \in 1..26 : UpperLetters[k] = c
    THEN LowerLetters[CHOOSE k \in 1..26 : UpperLetters[k] = c]
    ELSE c

\* lit (in lower case) occurs at index i of s, letter case ignored (the i flag)
HasAtIgnoreCase(s, i, lit) ==
    /\ i >= 1
    /\ i + Len(lit) - 1 <= Len(s)
    /\ \A k \in 1..Len(lit) : ToLower(s[i + k - 1]) = lit[k]

QuoteMarks == {"\"", "'"}

\* the index of the first quote mark at or after `from`, 0 when there is none
RECURSIVE FirstQuote(_, _)
FirstQuote(s, from) ==
    IF from > Len(s) THEN 0
    ELSE IF s[from] \in QuoteMarks THEN from
    ELSE FirstQuote(s, from + 1)

\* The indices q at which srcdoc= can start in a match of
\*   /<iframe[^>]*srcdoc=["']([^"']*)["'][^>]*>/i
\* that starts at index p: no > between <iframe and q, a quote mark after
\* srcdoc=, a run of non-quote characters closed by a quote mark, and a >
\* somewhere after it.
SrcdocStarts(s, p) ==
    { q \in (p + 7)..Len(s) :
        /\ \A k \in (p + 7)..(q - 1) : s[k] # ">"
        /\ HasAtIgnoreCase(s, q, <<"s", "r", "c", "d", "o", "c", "=">>)
        /\ q + 7 <= Len(s)
        /\ s[q + 7] \in QuoteMarks
        /\ LET e == FirstQuote(s, q + 8)
           IN  e # 0 /\ \E g \in (e + 1)..Len(s) : s[g] = ">" }

MatchStarts(s) ==
    { p \in 1..Len(s) :
        /\ HasAtIgnoreCase(s, p, <<"<", "i", "f", "r", "a", "m", "e">>)
        /\ SrcdocStarts(s, p) # {} }

SetMin(S) == CHOOSE x \in S : \A y \in S : x <= y

SetMax(S) == CHOOSE x \in S : \A y \in S : x >= y

\* text.match(...): the leftmost match; the first [^>]* is greedy, so srcdoc= is
\* the last one the tag allows.  group1 is the captured attribute value.
IframeMatch(s) ==
    IF MatchStarts(s) = {} THEN [found |-> FALSE]
    ELSE LET p == SetMin(MatchStarts(s))
             q == SetMax(SrcdocStarts(s, p))
             e == FirstQuote(s, q + 8)
         IN  [found |-> TRUE, group1 |-> SubSeq(s, q + 8, e - 1)]

BackslashN == <<"\\", "n">>

Newline == <<"\n">>

\* a decoding that replaces &amp; first
DecodeEntitiesAmpFirst(content) ==
    LET c1 == ReplaceAll(content, <<"&", "a", "m", "p", ";">>, <<"&">>)
        c2 == ReplaceAll(c1, <<"&", "q", "u", "o", "t", ";">>, <<"\"">>)
        c3 == ReplaceAll(c2, <<"&", "l", "t", ";">>, <<"<">>)
        c4 == ReplaceAll(c3, <<"&", "g", "t", ";">>, <<">">>)
    IN  c4

\* the four content.replace calls on the captured value, in the code's order
DecodeEntities(content) ==
    LET c1 == ReplaceAll(content, <<"&", "q", "u", "o", "t", ";">>, <<"\"">>)
        c2 == ReplaceAll(c1, <<"&", "l", "t", ";">>, <<"<">>)
        c3 == ReplaceAll(c2, <<"&", "g", "t", ";">>, <<">">>)
        c4 == ReplaceAll(c3, <<"&", "a", "m", "p", ";">>, <<"&">>)
    IN  c4

\* an extractor whose fallback replaces the first backslash-n only
extractIframeContentFirstOnly(text) ==
    LET iframeMatch == IframeMatch(text)
    IN  IF iframeMatch.found /\ iframeMatch.group1 # <<>>
        THEN ReplaceAll(DecodeEntities(iframeMatch.group1), BackslashN, Newline)
        ELSE IF \E i \in 1..Len(text) : HasAt(text, i, BackslashN)
        THEN LET i == CHOOSE i \in 1..Len(text) :
                          /\ HasAt(text, i, BackslashN)
                          /\ \A j \in 1..(i - 1) : ~HasAt(text, j, BackslashN)
             IN  SubSeq(text, 1, i - 1) \o Newline \o SubSeq(text, i + 2, Len(text))
        ELSE text

extractIframeContent(text) ==
    LET iframeMatch == IframeMatch(text)
    IN  IF iframeMatch.found /\ iframeMatch.group1 # <<>>
        THEN ReplaceAll(DecodeEntities(iframeMatch.group1), BackslashN, Newline)
        ELSE ReplaceAll(text, BackslashN, Newline)

(***************************************************************************)
(* The environment: texts of files and of webhook answers                  *)
(***************************************************************************)
\* {"rubric_id":"r1"}
BodyObject == <<"{", "\"", "r", "u", "b", "r", "i", "c", "_", "i", "d", "\"", ":", "\"", "r", "1", "\"", "}">>

\* {"error":"boom"}
BodyError == <<"{", "\"", "e", "r", "r", "o", "r", "\"", ":", "\"", "b", "o", "o", "m", "\"", "}">>

\* [1]
BodyList == <<"[", "1", "]">>

BodyNull == <<"n", "u", "l", "l">>

BodyFalse == <<"f", "a", "l", "s", "e">>

BodyZero == <<"0">>

\* a zero followed by a line break
BodyZeroLine == <<"0", "\n">>

\* the JSON text of the empty string
BodyEmptyString == <<"\"", "\"">>

\* the JSON text of the string ok
BodyJsonString == <<"\"", "o", "k", "\"">>

\* plain text with a literal backslash-n: hola\nmundo
BodyText == <<"h", "o", "l", "a", "\\", "n", "m", "u", "n", "d", "o">>

BodyBlank == <<" ", " ">>

BodyEmpty == <<>>

\* <iframe srcdoc="{&quot;a&quot;:1}"></iframe>
BodyIframe ==
    <<"<", "i", "f", "r", "a", "m", "e", " ", "s", "r", "c", "d", "o", "c", "=", "\"", "{", "&", "q", "u", "o", "t", ";", "a", "&", "q", "u", "o", "t", ";", ":", "1", "}", "\"", ">", "<", "/", "i", "f", "r", "a", "m", "e", ">">>

\* response.ok
IsOk(status) == status >= 200 /\ status <= 299

HttpResponse(status, statusText, body) ==
    [kind |-> "response", status |-> status, statusText |-> statusText, body |-> body]

\* fetch() or response.text() rejects: the reason is the transport's Error
NetworkFailure == [kind |-> "reject", reason |-> [t |-> "err", message |-> "Failed to fetch"]]

\* what the transport can answer to a request
WebhookAnswers ==
    {HttpResponse(200, "OK", b) :
        b \in {BodyObject, BodyNull, BodyText, BodyBlank, BodyEmpty, BodyJsonString,
               BodyIframe}}
    \cup {HttpResponse(500, "Internal Server Error", BodyError),
          HttpResponse(500, "", BodyZeroLine)}
    \cup {NetworkFailure}

\* a File the user can pick: file.text() resolves with text, or rejects
ReadableFile(name, text) == [name |-> name, readable |-> TRUE, text |-> text]

UnreadableFile(name) ==
    [name |-> name, readable |-> FALSE,
     reason |-> [isError |-> TRUE, message |-> "NotReadableError"]]

PdfFiles == {ReadableFile("examen.pdf", <<"%", "P", "D", "F">>)}

SubmissionFiles == {ReadableFile("tp.py", <<"x", "=", "1">>)}

ImportFiles ==
    {ReadableFile("rubrica.json", BodyObject),
     ReadableFile("notas.txt", BodyText),
     ReadableFile("cero.json", BodyZero),
     ReadableFile("lista.json", BodyList),
     UnreadableFile("roto.json")}

\* the values of import.meta.env.VITE_*_WEBHOOK_URL ?? '' in the deployments:
\* every URL configured, or none
Environments ==
    {[rubric |-> u, grading |-> u, spreadsheet |-> u] :
        u \in {"", "https://n8n.example/webhook"}}

\* what the user can type into a field of the spreadsheet form
RequiredFieldInputs == {<<>>, <<" ">>, <<"a", " ">>}

OptionalFieldInputs == {<<>>, <<"9">>}

(***************************************************************************)
(* App.tsx: the catalog                                                    *)
(***************************************************************************)
UNIVERSITIES == {"utn-frm", "utn-frsn", "utn-fra", "utn-frba"}

\* every university offers the same four courses (type CourseId)
COURSES_BY_UNIVERSITY ==
    [u \in UNIVERSITIES |->
        {"programacion-1", "programacion-2", "programacion-3", "bases-de-datos-1"}]

\* the one preset, its content cut to its first field
PRESET_RUBRICS ==
    {[id |-> "practico-5-listas", name |-> "TP Listas",
      courseId |-> "programacion-1",
      content |-> JSObj(<<[k |-> <<"r", "u", "b", "r", "i", "c", "_", "i", "d">>,
                           v |-> JSStr(<<"p", "5">>)]>>)]}

\* the options the user picks among in the model
UniversityChoices == {"utn-frm", "utn-frba"}

CourseChoices == {"programacion-1", "programacion-2"}

(***************************************************************************)
(* Bounds of the model                                                     *)
(***************************************************************************)
\* events of the user (a change of an input, a click) in a run
MaxUserEvents == 4

\* length of the texts without markup a utility function is called with
MaxTextLen == 4

\* events of the user in a run of the grading workflow on its own
MaxGradingEvents == 5

(***************************************************************************)
(* App.tsx: the state of the App component                                 *)
(***************************************************************************)
VARIABLES
    rubricWebhookUrl, gradingWebhookUrl, spreadsheetWebhookUrl,
    selectedUniversity, selectedCourse, selectedPresetRubricId,
    rubricPdf, rubricJson, rubricSource, submissionFile,
    isGeneratingRubric, isGrading, gradingResponse, rubricError, gradingError,
    spreadsheetUrl, spreadsheetSheetName, spreadsheetStudentName, spreadsheetGrade,
    spreadsheetSummaryByCriteria, spreadsheetStrengths, spreadsheetRecommendations,
    isUploadingSpreadsheet, spreadsheetResponse, spreadsheetError,
    inflight,   \* the requests handed to fetch and not answered yet
    reading,    \* the files whose file.text() handleRubricImport awaits
    sent,       \* per action, the requests handed to fetch so far
    passed,     \* per action, the invocations that passed validation so far
    userEvents, \* the events of the user so far
    eventLimit, \* the number of events of the user a run is cut at
    lastAnswer, \* what the transport answered to the request that settled last
    lastEvent,  \* the handler or continuation that ran last
    callArgument, \* what a utility function is called with
    callResult    \* what the call returned, null before the call

envVars == <<rubricWebhookUrl, gradingWebhookUrl, spreadsheetWebhookUrl>>

selectionVars == <<selectedUniversity, selectedCourse, selectedPresetRubricId>>

fileVars == <<rubricPdf, submissionFile>>

rubricVars == <<rubricJson, rubricSource>>

generateVars == <<isGeneratingRubric, rubricError>>

gradeVars == <<isGrading, gradingResponse, gradingError>>

formVars ==
    <<spreadsheetUrl, spreadsheetSheetName, spreadsheetStudentName, spreadsheetGrade,
      spreadsheetSummaryByCriteria, spreadsheetStrengths, spreadsheetRecommendations>>

uploadVars == <<isUploadingSpreadsheet, spreadsheetResponse, spreadsheetError>>

netVars == <<inflight, sent, passed>>

appVars ==
    <<envVars, selectionVars, fileVars, rubricVars, generateVars, gradeVars,
      formVars, uploadVars, netVars, reading, userEvents, eventLimit, lastAnswer,
      lastEvent>>

utilVars == <<callArgument, callResult>>

vars == <<appVars, utilVars>>

ActionNames == {"generate", "grade", "upload"}

\* { message } without details
\* type RubricSource = 'generada' | 'importada' | 'preestablecida'
RubricSource(name) == [t |-> "source", name |-> name]

ErrorMessage(message) == [t |-> "err", message |-> message]

\* { message, details }
WebhookError(message, details) == [t |-> "err", message |-> message, details |-> details]

AppInit ==
    /\ \E env \in Environments :
           /\ rubricWebhookUrl = env.rubric
           /\ gradingWebhookUrl = env.grading
           /\ spreadsheetWebhookUrl = env.spreadsheet
    /\ selectedUniversity = ""
    /\ selectedCourse = ""
    /\ selectedPresetRubricId = ""
    /\ rubricPdf = JSNull
    /\ rubricJson = <<>>
    /\ rubricSource = JSNull
    /\ submissionFile = JSNull
    /\ isGeneratingRubric = FALSE
    /\ isGrading = FALSE
    /\ gradingResponse = JSNull
    /\ rubricError = JSNull
    /\ gradingError = JSNull
    /\ spreadsheetUrl = <<>>
    /\ spreadsheetSheetName = <<>>
    /\ spreadsheetStudentName = <<>>
    /\ spreadsheetGrade = <<>>
    /\ spreadsheetSummaryByCriteria = <<>>
    /\ spreadsheetStrengths = <<>>
    /\ spreadsheetRecommendations = <<>>
    /\ isUploadingSpreadsheet = FALSE
    /\ spreadsheetResponse = JSNull
    /\ spreadsheetError = JSNull
    /\ inflight = {}
    /\ reading = <<>>
    /\ sent = [a \in ActionNames |-> 0]
    /\ passed = [a \in ActionNames |-> 0]
    /\ userEvents = 0
    /\ lastAnswer = JSNull
    /\ lastEvent = [op |-> "mount"]

\* the App component mounted; no utility function is called on its own
Init ==
    /\ AppInit
    /\ eventLimit = MaxUserEvents
    /\ callArgument = <<>>
    /\ callResult = JSNull

\* a handler run by an event of the user: the event is counted
UserEventCounted ==
    /\ userEvents < eventLimit
    /\ userEvents' = userEvents + 1
    /\ UNCHANGED lastAnswer

\* a test of the rubric text that forgets trim()
hasRubricUntrimmed == Len(rubricJson) > 0

\* const hasRubric = rubricJson.trim().length > 0
hasRubric == Len(Trim(rubricJson)) > 0

availableCourses ==
    IF selectedUniversity = "" THEN {} ELSE COURSES_BY_UNIVERSITY[selectedUniversity]

availablePresetRubrics ==
    IF selectedCourse = "" THEN {}
    ELSE {rubric \in PRESET_RUBRICS : rubric.courseId = selectedCourse}

(***************************************************************************)
(* App.tsx: the selection of university, course and preset                 *)
(***************************************************************************)
\* onChange of the university select, then the effect on [selectedUniversity]
\* and, the course having changed, the effect on [selectedCourse]
SelectUniversity(value) ==
    /\ UserEventCounted
    /\ value # selectedUniversity
    /\ selectedUniversity' = value
    /\ selectedCourse' = ""
    /\ selectedPresetRubricId' = ""
    /\ lastEvent' = [op |-> "setSelectedUniversity"]
    /\ UNCHANGED <<utilVars, eventLimit, envVars, fileVars, rubricVars, generateVars, gradeVars,
                   formVars, uploadVars, netVars, reading>>

\* a course select without the effect on [selectedCourse]
SelectCourseKeepsPreset(value) ==
    /\ UserEventCounted
    /\ selectedUniversity # ""
    /\ value \in availableCourses \cup {""}
    /\ value # selectedCourse
    /\ selectedCourse' = value
    /\ lastEvent' = [op |-> "setSelectedCourse"]
    /\ UNCHANGED <<utilVars, eventLimit, envVars, selectedUniversity, selectedPresetRubricId,
                   fileVars, rubricVars, generateVars, gradeVars, formVars, uploadVars,
                   netVars, reading>>

\* onChange of the course select (disabled without a university), then the
\* effect on [selectedCourse]
SelectCourse(value) ==
    /\ UserEventCounted
    /\ selectedUniversity # ""
    /\ value \in availableCourses \cup {""}
    /\ value # selectedCourse
    /\ selectedCourse' = value
    /\ selectedPresetRubricId' = ""
    /\ lastEvent' = [op |-> "setSelectedCourse"]
    /\ UNCHANGED <<utilVars, eventLimit, envVars, selectedUniversity, fileVars, rubricVars, generateVars,
                   gradeVars, formVars, uploadVars, netVars, reading>>

\* onChange of the preset select, disabled without a course or without presets
handlePresetRubricSelection(value) ==
    /\ UserEventCounted
    /\ selectedCourse # ""
    /\ availablePresetRubrics # {}
    /\ value \in {rubric.id : rubric \in availablePresetRubrics} \cup {""}
    /\ value # selectedPresetRubricId
    /\ selectedPresetRubricId' = value
    /\ lastEvent' = [op |-> "handlePresetRubricSelection", value |-> value]
    /\ IF value = "" \/ ~\E rubric \in PRESET_RUBRICS : rubric.id = value
       THEN UNCHANGED <<rubricVars, rubricError>>
       ELSE LET preset == CHOOSE rubric \in PRESET_RUBRICS : rubric.id = value
                printable == JSONStringify(preset.content)
            IN  /\ rubricJson' = printable
                /\ rubricSource' = RubricSource("preestablecida")
                /\ rubricError' = JSNull
    /\ UNCHANGED <<utilVars, eventLimit, envVars, selectedUniversity, selectedCourse, fileVars,
                   isGeneratingRubric, gradeVars, formVars, uploadVars, netVars, reading>>

(***************************************************************************)
(* App.tsx: the file inputs and the import of a rubric                     *)
(***************************************************************************)
handleRubricPdfChange(file) ==
    /\ UserEventCounted
    /\ file # rubricPdf
    /\ rubricPdf' = file
    /\ lastEvent' = [op |-> "handleRubricPdfChange"]
    /\ UNCHANGED <<utilVars, eventLimit, envVars, selectionVars, submissionFile, rubricVars, generateVars,
                   gradeVars, formVars, uploadVars, netVars, reading>>

handleSubmissionChange(file) ==
    /\ UserEventCounted
    /\ file # submissionFile
    /\ submissionFile' = file
    /\ lastEvent' = [op |-> "handleSubmissionChange"]
    /\ UNCHANGED <<utilVars, eventLimit, envVars, selectionVars, rubricPdf, rubricVars, generateVars,
                   gradeVars, formVars, uploadVars, netVars, reading>>

\* handleRubricImport up to its await: file.text() is pending
handleRubricImport(file) ==
    /\ UserEventCounted
    /\ reading' = Append(reading, file)
    /\ lastEvent' = [op |-> "handleRubricImport", file |-> file.name]
    /\ UNCHANGED <<utilVars, eventLimit, envVars, selectionVars, fileVars, rubricVars, generateVars,
                   gradeVars, formVars, uploadVars, netVars>>

ImportParseMessage == "El archivo no contiene un JSON valido."

ImportReadMessage == "No se pudo leer la rubrica JSON."

\* an import that empties the rubric when the file is rejected
ImportParsedDropsRubric(parsed) ==
    IF ~Truthy(parsed)
    THEN /\ rubricError' = ErrorMessage(ImportParseMessage)
         /\ rubricJson' = <<>>
         /\ rubricSource' = JSNull
    ELSE /\ rubricJson' = JSONStringify(parsed)
         /\ rubricSource' = RubricSource("importada")
         /\ rubricError' = JSNull

\* the try block after const parsed = parseJsonSafely(text), and its catch
ImportParsed(parsed) ==
    IF ~Truthy(parsed)
    THEN /\ rubricError' = ErrorMessage(ImportParseMessage)
         /\ UNCHANGED rubricVars
    ELSE /\ rubricJson' = JSONStringify(parsed)
         /\ rubricSource' = RubricSource("importada")
         /\ rubricError' = JSNull

\* file.text() rejected: the catch block
ImportUnreadable(reason) ==
    /\ rubricError' = ErrorMessage(IF reason.isError THEN reason.message
                                   ELSE ImportReadMessage)
    /\ UNCHANGED rubricVars

\* handleRubricImport from its await on: the i-th pending read settles
handleRubricImportRead(i) ==
    /\ reading' = SubSeq(reading, 1, i - 1) \o SubSeq(reading, i + 1, Len(reading))
    /\ lastEvent' = [op |-> "handleRubricImportRead", file |-> reading[i].name]
    /\ IF reading[i].readable
       THEN \E parsed \in {parseJsonSafely(reading[i].text)} : ImportParsed(parsed)
       ELSE ImportUnreadable(reading[i].reason)
    /\ UNCHANGED <<utilVars, eventLimit, envVars, selectionVars, fileVars, isGeneratingRubric,
                   gradeVars, formVars, uploadVars, netVars, userEvents, lastAnswer>>

(***************************************************************************)
(* App.tsx: sendWebhookRequest                                             *)
(***************************************************************************)
\* new FormData() and its append calls: the entries in order
FormEntry(name, value) == [name |-> name, value |-> value]

\* new Blob([text], { type }) appended with a filename
BlobEntry(name, text, type, filename) ==
    [name |-> name, value |-> text, type |-> type, filename |-> filename]

\* a client that issues the same request a second time
sendWebhookRequestFetchTwice(action, url, body) ==
    /\ inflight' = inflight \cup
           {[action |-> action, n |-> sent[action] + k, method |-> "POST",
             url |-> url, body |-> body] : k \in 1..2}
    /\ sent' = [sent EXCEPT ![action] = @ + 2]

\* sendWebhookRequest up to its first await: one fetch(url, { method: 'POST', body })
sendWebhookRequestFetch(action, url, body) ==
    /\ inflight' = inflight \cup
           {[action |-> action, n |-> sent[action] + 1, method |-> "POST",
             url |-> url, body |-> body]}
    /\ sent' = [sent EXCEPT ![action] = @ + 1]

FallbackStatusText == "al invocar el webhook"

\* if (!response.ok) { ... throw { message, details } }, with
\* parsed = parseJsonSafely(responseText)
FailureOf(response, responseText, parsed) ==
    WebhookError(
        "Error " \o ToString(response.status) \o ": "
            \o (IF response.statusText # "" THEN response.statusText
                ELSE FallbackStatusText),
        IF Truthy(parsed) THEN formatJson(parsed) ELSE responseText)

\* return parsed ?? responseText, with parsed = parseJsonSafely(responseText)
ValueOf(responseText, parsed) ==
    IF parsed # JSNull THEN parsed ELSE JSStr(responseText)

\* sendWebhookRequest from its first await on, given what the transport answered:
\* [threw |-> TRUE, error |-> e] or [threw |-> FALSE, value |-> v]
sendWebhookRequest(answer) ==
    IF answer.kind = "reject" THEN [threw |-> TRUE, error |-> answer.reason]
    ELSE IF ~IsOk(answer.status)
    THEN [threw |-> TRUE,
          error |-> FailureOf(answer, answer.body, parseJsonSafely(answer.body))]
    ELSE [threw |-> FALSE, value |-> ValueOf(answer.body, parseJsonSafely(answer.body))]

\* typeof result === 'string' ? extractIframeContent(result) : result
ProcessedResult(result) ==
    IF IsString(result) THEN JSStr(extractIframeContent(result.s)) ELSE result

\* typeof processedResult === 'string' ? processedResult : formatJson(processedResult)
Printable(processedResult) ==
    IF IsString(processedResult) THEN processedResult.s ELSE formatJson(processedResult)

(***************************************************************************)
(* App.tsx: handleGenerateRubric                                           *)
(***************************************************************************)
\* the value of a validation that found nothing wrong
Valid == ""

MissingPdfMessage == "Selecciona un archivo PDF antes de generar la rubrica."

MissingRubricUrlMessage ==
    "Configura la variable VITE_RUBRIC_WEBHOOK_URL en tu archivo .env."

\* a button that stays enabled while the request is outstanding
GenerateNeverDisabled == FALSE

\* disabled={isGeneratingRubric}
GenerateDisabled == isGeneratingRubric

\* the early returns: the message of the error set, Valid when none is
GenerateValidation ==
    IF rubricPdf = JSNull THEN MissingPdfMessage
    ELSE IF rubricWebhookUrl = "" THEN MissingRubricUrlMessage
    ELSE Valid

\* a begin that forgets setRubricError(null)
GenerateBeginKeepsError ==
    /\ isGeneratingRubric' = TRUE
    /\ UNCHANGED rubricError

\* setIsGeneratingRubric(true); setRubricError(null)
GenerateBegin ==
    /\ isGeneratingRubric' = TRUE
    /\ rubricError' = JSNull

\* finally { setIsGeneratingRubric(false) }
GenerateFinally(outcome) == isGeneratingRubric' = FALSE

\* the click, up to the await of sendWebhookRequest
handleGenerateRubric ==
    /\ UserEventCounted
    /\ ~GenerateDisabled
    /\ IF GenerateValidation # Valid
       THEN /\ rubricError' = ErrorMessage(GenerateValidation)
            /\ lastEvent' = [op |-> "handleGenerateRubric", issued |-> FALSE]
            /\ UNCHANGED <<isGeneratingRubric, netVars>>
       ELSE /\ passed' = [passed EXCEPT !["generate"] = @ + 1]
            /\ GenerateBegin
            /\ sendWebhookRequestFetch("generate", rubricWebhookUrl,
                                       <<FormEntry("pdf", rubricPdf)>>)
            /\ lastEvent' = [op |-> "handleGenerateRubric", issued |-> TRUE]
    /\ UNCHANGED <<utilVars, eventLimit, envVars, selectionVars, fileVars, rubricVars, gradeVars,
                   formVars, uploadVars, reading>>

\* a continuation that forgets setRubricSource('generada')
GenerateContinuationKeepsSource(outcome) ==
    /\ IF outcome.threw
       THEN /\ rubricError' = outcome.error
            /\ UNCHANGED rubricVars
       ELSE /\ rubricJson' = Printable(ProcessedResult(outcome.value))
            /\ UNCHANGED <<rubricSource, rubricError>>
    /\ GenerateFinally(outcome)
    /\ lastEvent' = [op |-> "handleGenerateRubricSettled", returned |-> outcome]

\* a catch that also discards the rubric
GenerateContinuationDiscardsRubric(outcome) ==
    /\ IF outcome.threw
       THEN /\ rubricError' = outcome.error
            /\ rubricJson' = <<>>
            /\ rubricSource' = JSNull
       ELSE /\ rubricJson' = Printable(ProcessedResult(outcome.value))
            /\ rubricSource' = RubricSource("generada")
            /\ UNCHANGED rubricError
    /\ GenerateFinally(outcome)
    /\ lastEvent' = [op |-> "handleGenerateRubricSettled", returned |-> outcome]

\* try { ... } catch { ... } finally { ... } from the await on, outcome being what
\* sendWebhookRequest returned or threw
GenerateContinuation(outcome) ==
    /\ IF outcome.threw
       THEN /\ rubricError' = outcome.error
            /\ UNCHANGED rubricVars
       ELSE /\ rubricJson' = Printable(ProcessedResult(outcome.value))
            /\ rubricSource' = RubricSource("generada")
            /\ UNCHANGED rubricError
    /\ GenerateFinally(outcome)
    /\ lastEvent' = [op |-> "handleGenerateRubricSettled", returned |-> outcome]

\* the rest of handleGenerateRubric, once the transport answered request r
handleGenerateRubricSettled(r, answer) ==
    /\ r \in inflight
    /\ r.action = "generate"
    /\ inflight' = inflight \ {r}
    /\ \E outcome \in {sendWebhookRequest(answer)} : GenerateContinuation(outcome)
    /\ lastAnswer' = answer
    /\ UNCHANGED <<utilVars, eventLimit, envVars, selectionVars, fileVars, gradeVars, formVars,
                   uploadVars, sent, passed, reading, userEvents>>

(***************************************************************************)
(* App.tsx: handleGradeSubmission                                          *)
(***************************************************************************)
MissingRubricMessage ==
    "Necesitas generar o importar una rubrica JSON antes de corregir."

MissingSubmissionMessage == "Selecciona un archivo para corregir."

MissingGradingUrlMessage ==
    "Configura la variable VITE_GRADING_WEBHOOK_URL en tu archivo .env."

\* disabled={isGrading}
GradeDisabled == isGrading

GradeValidation ==
    IF ~hasRubric THEN MissingRubricMessage
    ELSE IF submissionFile = JSNull THEN MissingSubmissionMessage
    ELSE IF gradingWebhookUrl = "" THEN MissingGradingUrlMessage
    ELSE Valid

\* setIsGrading(true); setGradingError(null); setGradingResponse(null)
GradeBegin ==
    /\ isGrading' = TRUE
    /\ gradingError' = JSNull
    /\ gradingResponse' = JSNull

\* a reset of the busy flag placed after the try block instead of in finally
GradeFinallyUnlessThrown(outcome) ==
    isGrading' = (IF outcome.threw THEN isGrading ELSE FALSE)

\* finally { setIsGrading(false) }
GradeFinally(outcome) == isGrading' = FALSE

\* a blob built without its MIME type
GradeFormDataUntyped ==
    <<BlobEntry("rubric", rubricJson, "", "rubrica.json"),
      FormEntry("submission", submissionFile)>>

\* const formData = new FormData(); the blob of the rubric text and the file
GradeFormData ==
    <<BlobEntry("rubric", rubricJson, "application/json", "rubrica.json"),
      FormEntry("submission", submissionFile)>>

handleGradeSubmission ==
    /\ UserEventCounted
    /\ ~GradeDisabled
    /\ IF GradeValidation # Valid
       THEN /\ gradingError' = ErrorMessage(GradeValidation)
            /\ lastEvent' = [op |-> "handleGradeSubmission", issued |-> FALSE]
            /\ UNCHANGED <<isGrading, gradingResponse, netVars>>
       ELSE /\ passed' = [passed EXCEPT !["grade"] = @ + 1]
            /\ GradeBegin
            /\ sendWebhookRequestFetch("grade", gradingWebhookUrl, GradeFormData)
            /\ lastEvent' = [op |-> "handleGradeSubmission", issued |-> TRUE]
    /\ UNCHANGED <<utilVars, eventLimit, envVars, selectionVars, fileVars, rubricVars, generateVars,
                   formVars, uploadVars, reading>>

\* a continuation that stores the result only when it is truthy
GradeContinuationSkipsEmpty(outcome) ==
    /\ IF outcome.threw
       THEN /\ gradingError' = outcome.error
            /\ UNCHANGED gradingResponse
       ELSE /\ gradingResponse' = IF Truthy(ProcessedResult(outcome.value))
                                  THEN ProcessedResult(outcome.value)
                                  ELSE gradingResponse
            /\ UNCHANGED gradingError
    /\ GradeFinally(outcome)
    /\ lastEvent' = [op |-> "handleGradeSubmissionSettled", returned |-> outcome]

\* try { ... } catch { ... } finally { ... } from the await on
GradeContinuation(outcome) ==
    /\ IF outcome.threw
       THEN /\ gradingError' = outcome.error
            /\ UNCHANGED gradingResponse
       ELSE /\ gradingResponse' = ProcessedResult(outcome.value)
            /\ UNCHANGED gradingError
    /\ GradeFinally(outcome)
    /\ lastEvent' = [op |-> "handleGradeSubmissionSettled", returned |-> outcome]

handleGradeSubmissionSettled(r, answer) ==
    /\ r \in inflight
    /\ r.action = "grade"
    /\ inflight' = inflight \ {r}
    /\ \E outcome \in {sendWebhookRequest(answer)} : GradeContinuation(outcome)
    /\ lastAnswer' = answer
    /\ UNCHANGED <<utilVars, eventLimit, envVars, selectionVars, fileVars, rubricVars, generateVars,
                   formVars, uploadVars, sent, passed, reading, userEvents>>

(***************************************************************************)
(* App.tsx: the spreadsheet form and handleUploadToSpreadsheet             *)
(***************************************************************************)
\* onChange of the inputs of the form: setSpreadsheetUrl(event.target.value), ...
SetSpreadsheetUrl(value) ==
    /\ UserEventCounted
    /\ value # spreadsheetUrl
    /\ spreadsheetUrl' = value
    /\ lastEvent' = [op |-> "setSpreadsheetUrl"]
    /\ UNCHANGED <<spreadsheetSheetName, spreadsheetStudentName, spreadsheetGrade,
                   spreadsheetSummaryByCriteria, spreadsheetStrengths,
                   spreadsheetRecommendations>>
    /\ UNCHANGED <<utilVars, eventLimit, envVars, selectionVars, fileVars, rubricVars, generateVars,
                   gradeVars, uploadVars, netVars, reading>>

SetSpreadsheetSheetName(value) ==
    /\ UserEventCounted
    /\ value # spreadsheetSheetName
    /\ spreadsheetSheetName' = value
    /\ lastEvent' = [op |-> "setSpreadsheetSheetName"]
    /\ UNCHANGED <<spreadsheetUrl, spreadsheetStudentName, spreadsheetGrade,
                   spreadsheetSummaryByCriteria, spreadsheetStrengths,
                   spreadsheetRecommendations>>
    /\ UNCHANGED <<utilVars, eventLimit, envVars, selectionVars, fileVars, rubricVars, generateVars,
                   gradeVars, uploadVars, netVars, reading>>

SetSpreadsheetStudentName(value) ==
    /\ UserEventCounted
    /\ value # spreadsheetStudentName
    /\ spreadsheetStudentName' = value
    /\ lastEvent' = [op |-> "setSpreadsheetStudentName"]
    /\ UNCHANGED <<spreadsheetUrl, spreadsheetSheetName, spreadsheetGrade,
                   spreadsheetSummaryByCriteria, spreadsheetStrengths,
                   spreadsheetRecommendations>>
    /\ UNCHANGED <<utilVars, eventLimit, envVars, selectionVars, fileVars, rubricVars, generateVars,
                   gradeVars, uploadVars, netVars, reading>>

SetSpreadsheetGrade(value) ==
    /\ UserEventCounted
    /\ value # spreadsheetGrade
    /\ spreadsheetGrade' = value
    /\ lastEvent' = [op |-> "setSpreadsheetGrade"]
    /\ UNCHANGED <<spreadsheetUrl, spreadsheetSheetName, spreadsheetStudentName,
                   spreadsheetSummaryByCriteria, spreadsheetStrengths,
                   spreadsheetRecommendations>>
    /\ UNCHANGED <<utilVars, eventLimit, envVars, selectionVars, fileVars, rubricVars, generateVars,
                   gradeVars, uploadVars, netVars, reading>>

SetSpreadsheetSummaryByCriteria(value) ==
    /\ UserEventCounted
    /\ value # spreadsheetSummaryByCriteria
    /\ spreadsheetSummaryByCriteria' = value
    /\ lastEvent' = [op |-> "setSpreadsheetSummaryByCriteria"]
    /\ UNCHANGED <<spreadsheetUrl, spreadsheetSheetName, spreadsheetStudentName,
                   spreadsheetGrade, spreadsheetStrengths, spreadsheetRecommendations>>
    /\ UNCHANGED <<utilVars, eventLimit, envVars, selectionVars, fileVars, rubricVars, generateVars,
                   gradeVars, uploadVars, netVars, reading>>

SetSpreadsheetStrengths(value) ==
    /\ UserEventCounted
    /\ value # spreadsheetStrengths
    /\ spreadsheetStrengths' = value
    /\ lastEvent' = [op |-> "setSpreadsheetStrengths"]
    /\ UNCHANGED <<spreadsheetUrl, spreadsheetSheetName, spreadsheetStudentName,
                   spreadsheetGrade, spreadsheetSummaryByCriteria,
                   spreadsheetRecommendations>>
    /\ UNCHANGED <<utilVars, eventLimit, envVars, selectionVars, fileVars, rubricVars, generateVars,
                   gradeVars, uploadVars, netVars, reading>>

SetSpreadsheetRecommendations(value) ==
    /\ UserEventCounted
    /\ value # spreadsheetRecommendations
    /\ spreadsheetRecommendations' = value
    /\ lastEvent' = [op |-> "setSpreadsheetRecommendations"]
    /\ UNCHANGED <<spreadsheetUrl, spreadsheetSheetName, spreadsheetStudentName,
                   spreadsheetGrade, spreadsheetSummaryByCriteria, spreadsheetStrengths>>
    /\ UNCHANGED <<utilVars, eventLimit, envVars, selectionVars, fileVars, rubricVars, generateVars,
                   gradeVars, uploadVars, netVars, reading>>

MissingSpreadsheetUrlMessage ==
    "Configura la variable VITE_SPREADSHEET_WEBHOOK_URL en tu archivo .env."

IncompleteFormMessage ==
    "Completa la URL de la planilla, el nombre de la hoja y el nombre del alumno antes de enviar."

\* disabled={isUploadingSpreadsheet}
UploadDisabled == isUploadingSpreadsheet

\* a validation that forgets the three required fields
UploadValidationIgnoresFields ==
    IF spreadsheetWebhookUrl = "" THEN MissingSpreadsheetUrlMessage
    ELSE Valid

\* the early returns: the message of the error set, Valid when none is
UploadValidation ==
    IF spreadsheetWebhookUrl = "" THEN MissingSpreadsheetUrlMessage
    ELSE IF \/ Trim(spreadsheetUrl) = <<>>
            \/ Trim(spreadsheetSheetName) = <<>>
            \/ Trim(spreadsheetStudentName) = <<>>
         THEN IncompleteFormMessage
    ELSE Valid

\* a begin that forgets setIsUploadingSpreadsheet(true)
UploadBeginNotBusy ==
    /\ UNCHANGED isUploadingSpreadsheet
    /\ spreadsheetError' = JSNull
    /\ spreadsheetResponse' = JSNull

\* setIsUploadingSpreadsheet(true); setSpreadsheetError(null);
\* setSpreadsheetResponse(null)
UploadBegin ==
    /\ isUploadingSpreadsheet' = TRUE
    /\ spreadsheetError' = JSNull
    /\ spreadsheetResponse' = JSNull

\* finally { setIsUploadingSpreadsheet(false) }
UploadFinally(outcome) == isUploadingSpreadsheet' = FALSE

\* a form that sends the required fields trimmed
UploadFormDataTrimmed ==
    <<FormEntry("spreadsheet_url", Trim(spreadsheetUrl)),
      FormEntry("sheet_name", Trim(spreadsheetSheetName)),
      FormEntry("alumno", Trim(spreadsheetStudentName)),
      FormEntry("nota", spreadsheetGrade),
      FormEntry("resumen_por_criterios", spreadsheetSummaryByCriteria),
      FormEntry("fortalezas", spreadsheetStrengths),
      FormEntry("recomendaciones", spreadsheetRecommendations)>>

\* const formData = new FormData(); the seven appends, in order
UploadFormData ==
    <<FormEntry("spreadsheet_url", spreadsheetUrl),
      FormEntry("sheet_name", spreadsheetSheetName),
      FormEntry("alumno", spreadsheetStudentName),
      FormEntry("nota", spreadsheetGrade),
      FormEntry("resumen_por_criterios", spreadsheetSummaryByCriteria),
      FormEntry("fortalezas", spreadsheetStrengths),
      FormEntry("recomendaciones", spreadsheetRecommendations)>>

handleUploadToSpreadsheet ==
    /\ UserEventCounted
    /\ ~UploadDisabled
    /\ IF UploadValidation # Valid
       THEN /\ spreadsheetError' = ErrorMessage(UploadValidation)
            /\ lastEvent' = [op |-> "handleUploadToSpreadsheet", issued |-> FALSE]
            /\ UNCHANGED <<isUploadingSpreadsheet, spreadsheetResponse, netVars>>
       ELSE /\ passed' = [passed EXCEPT !["upload"] = @ + 1]
            /\ UploadBegin
            /\ sendWebhookRequestFetch("upload", spreadsheetWebhookUrl, UploadFormData)
            /\ lastEvent' = [op |-> "handleUploadToSpreadsheet", issued |-> TRUE]
    /\ UNCHANGED <<utilVars, eventLimit, envVars, selectionVars, fileVars, rubricVars, generateVars,
                   gradeVars, formVars, reading>>

\* a catch that keeps only the errors sendWebhookRequest builds itself
UploadContinuationOnlyStructured(outcome) ==
    /\ IF outcome.threw
       THEN /\ spreadsheetError' =
                   (IF "details" \in DOMAIN outcome.error THEN outcome.error
                    ELSE spreadsheetError)
            /\ UNCHANGED spreadsheetResponse
       ELSE /\ spreadsheetResponse' = ProcessedResult(outcome.value)
            /\ UNCHANGED spreadsheetError
    /\ UploadFinally(outcome)
    /\ lastEvent' = [op |-> "handleUploadToSpreadsheetSettled", returned |-> outcome]

\* try { ... } catch { ... } finally { ... } from the await on
UploadContinuation(outcome) ==
    /\ IF outcome.threw
       THEN /\ spreadsheetError' = outcome.error
            /\ UNCHANGED spreadsheetResponse
       ELSE /\ spreadsheetResponse' = ProcessedResult(outcome.value)
            /\ UNCHANGED spreadsheetError
    /\ UploadFinally(outcome)
    /\ lastEvent' = [op |-> "handleUploadToSpreadsheetSettled", returned |-> outcome]

handleUploadToSpreadsheetSettled(r, answer) ==
    /\ r \in inflight
    /\ r.action = "upload"
    /\ inflight' = inflight \ {r}
    /\ \E outcome \in {sendWebhookRequest(answer)} : UploadContinuation(outcome)
    /\ lastAnswer' = answer
    /\ UNCHANGED <<utilVars, eventLimit, envVars, selectionVars, fileVars, rubricVars, generateVars,
                   gradeVars, formVars, sent, passed, reading, userEvents>>

(***************************************************************************)
(* The specification                                                       *)
(***************************************************************************)
\* what the browser does: a pending promise settles and its continuation runs
ImportSettles == \E i \in 1..Len(reading) : handleRubricImportRead(i)

GenerateSettles ==
    \E r \in inflight, answer \in WebhookAnswers : handleGenerateRubricSettled(r, answer)

GradeSettles ==
    \E r \in inflight, answer \in WebhookAnswers : handleGradeSubmissionSettled(r, answer)

UploadSettles ==
    \E r \in inflight, answer \in WebhookAnswers :
        handleUploadToSpreadsheetSettled(r, answer)

Next ==
    \/ \E value \in UniversityChoices \cup {""} : SelectUniversity(value)
    \/ \E value \in CourseChoices \cup {""} : SelectCourse(value)
    \/ \E value \in {rubric.id : rubric \in PRESET_RUBRICS} \cup {""} :
           handlePresetRubricSelection(value)
    \/ \E file \in PdfFiles \cup {JSNull} : handleRubricPdfChange(file)
    \/ \E file \in SubmissionFiles \cup {JSNull} : handleSubmissionChange(file)
    \/ \E file \in ImportFiles : handleRubricImport(file)
    \/ \E value \in RequiredFieldInputs : SetSpreadsheetUrl(value)
    \/ \E value \in RequiredFieldInputs : SetSpreadsheetSheetName(value)
    \/ \E value \in RequiredFieldInputs : SetSpreadsheetStudentName(value)
    \/ \E value \in OptionalFieldInputs : SetSpreadsheetGrade(value)
    \/ \E value \in OptionalFieldInputs : SetSpreadsheetSummaryByCriteria(value)
    \/ \E value \in OptionalFieldInputs : SetSpreadsheetStrengths(value)
    \/ \E value \in OptionalFieldInputs : SetSpreadsheetRecommendations(value)
    \/ handleGenerateRubric
    \/ handleGradeSubmission
    \/ handleUploadToSpreadsheet
    \/ ImportSettles
    \/ GenerateSettles
    \/ GradeSettles
    \/ UploadSettles

Spec == Init /\ [][Next]_vars

\* the transport answers or rejects each request it was given: the await of
\* fetch in sendWebhookRequest ends, for each of the three webhooks
FairSpec ==
    /\ Spec
    /\ WF_vars(GenerateSettles)
    /\ WF_vars(GradeSettles)
    /\ WF_vars(UploadSettles)

\* the grading workflow on its own, in longer runs: the user imports rubrics,
\* picks and removes the submission and invokes the grading
GradingInit ==
    /\ AppInit
    /\ eventLimit = MaxGradingEvents
    /\ callArgument = <<>>
    /\ callResult = JSNull

GradingSpec ==
    GradingInit
    /\ [][\/ \E file \in ImportFiles : handleRubricImport(file)
          \/ \E file \in SubmissionFiles \cup {JSNull} : handleSubmissionChange(file)
          \/ handleGradeSubmission
          \/ ImportSettles
          \/ GradeSettles]_vars

(***************************************************************************)
(* The utility functions called on their own                               *)
(***************************************************************************)
\* every text of a backslash, the letters n and a, and a line break, up to the
\* bound: texts without markup
PlainTexts == UNION {[1..n -> {"\\", "n", "a", "\n"}] : n \in 0..MaxTextLen}

\* markup that looks like the iframe but that the pattern does not match: no
\* srcdoc attribute, no closing >, no quote marks
NearMisses ==
    {<<"<", "i", "f", "r", "a", "m", "e", " ", "s", "r", "c", "=", "\"", "a", "\\", "n", "b", "\"", ">">>,
     <<"<", "i", "f", "r", "a", "m", "e", " ", "s", "r", "c", "d", "o", "c", "=", "\"", "a", "\\", "n", "b", "\"">>,
     <<"<", "i", "f", "r", "a", "m", "e", " ", "s", "r", "c", "d", "o", "c", "=", "a", "\\", "n", "b", ">">>}

\* the parts of a text holding one iframe tag with a srcdoc attribute: what is
\* before the tag, the tag up to srcdoc=, the quote mark, the attribute value
\* (empty, plain, with entities, with escaped entities) and what is after the tag
IframeCases ==
    {[before |-> b, open |-> o, quote |-> q, value |-> v, after |-> a] :
        b \in {<<>>, <<"x", "\\", "n">>},
        o \in {<<"<", "i", "f", "r", "a", "m", "e", " ", "s", "r", "c", "d", "o", "c", "=">>,
               <<"<", "I", "F", "R", "A", "M", "E", " ", "i", "d", "=", "1", " ", "S", "R", "C", "D", "O", "C", "=">>},
        q \in QuoteMarks,
        v \in {<<>>,
               <<"a">>,
               <<"{", "&", "q", "u", "o", "t", ";", "a", "&", "q", "u", "o", "t", ";", ":", "1", "}">>,
               <<"&", "a", "m", "p", ";", "l", "t", ";">>,
               <<"&", "l", "t", ";", "b", "&", "g", "t", ";">>,
               <<"&", "a", "m", "p", ";", "a", "m", "p", ";">>,
               <<"&", "a", "m", "p", ";", "q", "u", "o", "t", ";">>,
               <<"a", "\\", "n", "b">>,
               <<"a", ">", "b", "&">>},
        a \in {<<>>, <<"<", "/", "i", "f", "r", "a", "m", "e", ">", "\\", "n">>}}

\* the text of a case: before <iframe ... srcdoc="value"> after
IframeText(c) ==
    c.before \o c.open \o <<c.quote>> \o c.value \o <<c.quote>> \o <<">">> \o c.after

UtilityInit ==
    /\ AppInit
    /\ eventLimit = MaxUserEvents
    /\ callArgument \in PlainTexts \cup NearMisses \cup {IframeText(c) : c \in IframeCases}
    /\ callResult = JSNull

\* extractIframeContent(callArgument) is called and returns
extractIframeContentCall ==
    /\ callResult = JSNull
    /\ callResult' = JSStr(extractIframeContent(callArgument))
    /\ UNCHANGED <<appVars, callArgument>>

UtilitySpec == UtilityInit /\ [][extractIframeContentCall]_vars

\* the values the JSON utilities are called with: every kind of JSON value,
\* falsy and truthy, flat and nested
JsonValues ==
    LET atoms == {JSNull, JSBool(TRUE), JSBool(FALSE), JSNum(0), JSNum(1), JSNum(42),
                  JSStr(<<>>), JSStr(<<"a">>), JSStr(<<"a", "\"", "\n", "\\">>)}
    IN  atoms
        \cup {JSArr(<<>>), JSObj(<<>>)}
        \cup {JSArr(<<a>>) : a \in atoms}
        \cup {JSObj(<<[k |-> <<"x">>, v |-> a]>>) : a \in atoms}
        \cup {JSArr(<<JSNum(1), JSArr(<<JSNum(2)>>)>>),
              JSObj(<<[k |-> <<"x">>, v |-> JSNum(1)],
                      [k |-> <<"y">>, v |-> JSObj(<<[k |-> <<"z">>, v |-> JSArr(<<>>)]>>)]>>)}

\* texts that JSON.parse refuses: plain text, markup, cut documents, a leading
\* zero, a trailing comma, a bare key, single quotes, a misspelt literal, two
\* values, text after the value, a line break or a bad escape inside a string
MalformedTexts ==
    {<<"n", "o", "t", " ", "j", "s", "o", "n">>,
     <<"{">>,
     <<"{", "\"">>,
     <<"{", "\"", "x">>,
     <<"{", "\"", "x", "\"">>,
     <<"{", "\"", "x", "\"", ":">>,
     <<"{", "\"", "x", "\"", ":", "[">>,
     <<"{", "\"", "x", "\"", ":", "[", "1">>,
     <<"{", "\"", "x", "\"", ":", "[", "1", ",">>,
     <<"{", "\"", "x", "\"", ":", "[", "1", ",", "\"", "a">>,
     <<"{", "\"", "x", "\"", ":", "[", "1", ",", "\"", "a", "\"">>,
     <<"{", "\"", "x", "\"", ":", "[", "1", ",", "\"", "a", "\"", "]">>,
     <<"0", "1">>,
     <<"[", "1", ",", "]">>,
     <<"{", "\"", "x", "\"", ":", "1", ",", "}">>,
     <<"{", "x", ":", "1", "}">>,
     <<"'", "a", "'">>,
     <<"n", "u", "l">>,
     <<"T", "r", "u", "e">>,
     <<"1", " ", "2">>,
     <<"{", "\"", "x", "\"", ":", "1", "}", "x">>,
     <<"[", "1", "]", "]">>,
     <<"\"", "a">>,
     <<"\"", "a", "\n", "b", "\"">>,
     <<"\"", "\\", "q", "\"">>,
     <<>>,
     <<" ", " ">>,
     <<"h", "o", "l", "a", "\\", "n", "m", "u", "n", "d", "o">>,
     <<"<", "i", "f", "r", "a", "m", "e", " ", "s", "r", "c", "d", "o", "c", "=", "\"", "1", "\"", ">">>,
     <<",">>,
     <<"[", "1", " ", "2", "]">>,
     <<"{", "\"", "x", "\"", " ", "1", "}">>}

\* parseJsonSafely(callArgument.text) is called and returns
parseJsonSafelyCall ==
    /\ callArgument.fn = "parseJsonSafely"
    /\ callResult = JSNull
    /\ callResult' = [threw |-> FALSE, value |-> parseJsonSafely(callArgument.text)]
    /\ UNCHANGED <<appVars, callArgument>>

\* formatJson(callArgument.value) is called and returns
formatJsonCall ==
    /\ callArgument.fn = "formatJson"
    /\ callResult = JSNull
    /\ callResult' = [threw |-> FALSE, value |-> formatJson(callArgument.value)]
    /\ UNCHANGED <<appVars, callArgument>>

\* a call of parseJsonSafely with the serialization of a value, bare or between
\* white space, with {"x":1} or with a malformed text; a call of formatJson with
\* a value, or with a value that is or holds a BigInt
JsonUtilityInit ==
    /\ AppInit
    /\ eventLimit = MaxUserEvents
    /\ callArgument \in
           {[fn |-> "parseJsonSafely", text |-> text] :
               text \in {JSONStringify(v) : v \in JsonValues}
                        \cup {<<" ">> \o JSONStringify(v) \o <<"\n">> : v \in JsonValues}
                        \cup {<<"{", "\"", "x", "\"", ":", "1", "}">>}
                        \cup MalformedTexts}
           \cup {[fn |-> "formatJson", value |-> value] :
                    value \in JsonValues
                              \cup {JSBigInt(1), JSArr(<<JSBigInt(1)>>),
                                    JSObj(<<[k |-> <<"x">>, v |-> JSBigInt(1)]>>)}}
    /\ callResult = JSNull

JsonUtilitySpec == JsonUtilityInit /\ [][parseJsonSafelyCall \/ formatJsonCall]_vars

(***************************************************************************)
(* The three workflow actions, uniformly                                   *)
(***************************************************************************)
\* the requests of an action that fetch has not answered yet
Outstanding(a) == {r \in inflight : r.action = a}

\* isGeneratingRubric, isGrading, isUploadingSpreadsheet
Busy(a) ==
    CASE a = "generate" -> isGeneratingRubric
      [] a = "grade" -> isGrading
      [] a = "upload" -> isUploadingSpreadsheet

\* rubricError, gradingError, spreadsheetError
ErrorOf(a) ==
    CASE a = "generate" -> rubricError
      [] a = "grade" -> gradingError
      [] a = "upload" -> spreadsheetError

\* a result of the action is stored: the rubric it generated, its response
ResultStored(a) ==
    CASE a = "generate" -> rubricSource = RubricSource("generada")
      [] a = "grade" -> gradingResponse # JSNull
      [] a = "upload" -> spreadsheetResponse # JSNull

HandlerOf(a) ==
    CASE a = "generate" -> "handleGenerateRubric"
      [] a = "grade" -> "handleGradeSubmission"
      [] a = "upload" -> "handleUploadToSpreadsheet"

ContinuationOf(a) ==
    CASE a = "generate" -> "handleGenerateRubricSettled"
      [] a = "grade" -> "handleGradeSubmissionSettled"
      [] a = "upload" -> "handleUploadToSpreadsheetSettled"

\* this step is the user invoking action a (a click on its button)
Invoked(a) == userEvents' = userEvents + 1 /\ lastEvent'.op = HandlerOf(a)

\* the text is empty or white space only
Blank(text) == \A i \in 1..Len(text) : IsWhitespace(text[i])

\* a precondition of the action is unmet
PreconditionUnmet(a) ==
    CASE a = "generate" -> rubricPdf = JSNull \/ rubricWebhookUrl = ""
      [] a = "grade" ->
            Blank(rubricJson) \/ submissionFile = JSNull \/ gradingWebhookUrl = ""
      [] a = "upload" ->
            \/ spreadsheetWebhookUrl = ""
            \/ Blank(spreadsheetUrl)
            \/ Blank(spreadsheetSheetName)
            \/ Blank(spreadsheetStudentName)

ValidationErrors(a) ==
    CASE a = "generate" ->
            {ErrorMessage(MissingPdfMessage), ErrorMessage(MissingRubricUrlMessage)}
      [] a = "grade" ->
            {ErrorMessage(MissingRubricMessage), ErrorMessage(MissingSubmissionMessage),
             ErrorMessage(MissingGradingUrlMessage)}
      [] a = "upload" ->
            {ErrorMessage(MissingSpreadsheetUrlMessage), ErrorMessage(IncompleteFormMessage)}

(***************************************************************************)
(* C1                                                                      *)
(***************************************************************************)
\* C1: with the buttons disabled while their busy flag is true, each of generate,
\* grade and upload has at most one request outstanding in every reachable state.
C1_AtMostOneOutstanding ==
    \A a \in ActionNames : Cardinality(Outstanding(a)) <= 1

\* generation was invoked a second time and its second request is the only one
C1_Witness ==
    /\ sent["generate"] = 2
    /\ Cardinality(Outstanding("generate")) = 1
    /\ isGeneratingRubric

(***************************************************************************)
(* C2                                                                      *)
(***************************************************************************)
\* C2 as stated: in the step that issues a request of an action, the stored
\* result and the stored error of that action are cleared, for all three actions.
C2_ResultAndErrorCleared ==
    [][\A a \in ActionNames :
          sent'[a] > sent[a] => (ErrorOf(a)' = JSNull /\ ~ResultStored(a)')]_vars

\* C2 amended: in the step that issues a request, the error of the action is
\* cleared; grading and upload also clear their stored result, and generation
\* leaves the rubric text and the provenance as they were.
C2_ErrorClearedResultClearedButRubric ==
    [][\A a \in ActionNames :
          sent'[a] > sent[a] =>
              /\ ErrorOf(a)' = JSNull
              /\ a # "generate" => ~ResultStored(a)'
              /\ a = "generate" => UNCHANGED rubricVars]_vars

\* a second generation was issued while the rubric of the first is stored
C2_Witness ==
    /\ lastEvent.op = "handleGenerateRubric"
    /\ lastEvent.issued
    /\ sent["generate"] = 2
    /\ rubricSource = RubricSource("generada")
    /\ rubricJson # <<>>
    /\ rubricError = JSNull

(***************************************************************************)
(* C3                                                                      *)
(***************************************************************************)
\* C3: an invocation with an unmet precondition (no file, no rubric, a blank
\* required field, no webhook URL) stores a validation error of the action,
\* leaves the busy flag false and issues no request; before any invocation no
\* error is stored, whatever the configuration.
C3_ValidationFailsFast ==
    /\ [](userEvents = 0 => \A a \in ActionNames : ErrorOf(a) = JSNull)
    /\ [][\A a \in ActionNames :
             (Invoked(a) /\ PreconditionUnmet(a)) =>
                 /\ ErrorOf(a)' \in ValidationErrors(a)
                 /\ ~Busy(a)'
                 /\ UNCHANGED <<inflight, sent>>]_vars

\* the upload was invoked with the form filled in and no webhook URL configured
C3_Witness ==
    /\ lastEvent.op = "handleUploadToSpreadsheet"
    /\ ~lastEvent.issued
    /\ spreadsheetWebhookUrl = ""
    /\ ~Blank(spreadsheetUrl)
    /\ ~Blank(spreadsheetSheetName)
    /\ ~Blank(spreadsheetStudentName)
    /\ spreadsheetError = ErrorMessage(MissingSpreadsheetUrlMessage)
    /\ ~isUploadingSpreadsheet
    /\ sent["upload"] = 0

(***************************************************************************)
(* C4                                                                      *)
(***************************************************************************)
\* C4: once a generation answered with a success status and a JSON object has
\* settled, the rubric text is the pretty-printed object, the provenance is
\* 'generada', the generate busy flag is false again and the rubric error is empty.
C4_GenerationStoresRubric ==
    (/\ lastEvent.op = "handleGenerateRubricSettled"
     /\ lastAnswer.kind = "response"
     /\ IsOk(lastAnswer.status)
     /\ JSONParse(lastAnswer.body).ok
     /\ JSONParse(lastAnswer.body).v.t = "obj") =>
        /\ rubricJson = JSONStringify(JSONParse(lastAnswer.body).v)
        /\ rubricSource = RubricSource("generada")
        /\ ~isGeneratingRubric
        /\ rubricError = JSNull

(***************************************************************************)
(* C5                                                                      *)
(***************************************************************************)
\* C5: invoking grading with an empty or white-space rubric text and a submission
\* file selected stores the grading error that asks for a rubric and issues no
\* request.
C5_GradingRequiresRubric ==
    [][(Invoked("grade") /\ Blank(rubricJson) /\ submissionFile # JSNull) =>
           /\ gradingError' = ErrorMessage(MissingRubricMessage)
           /\ ~isGrading'
           /\ UNCHANGED <<inflight, sent>>]_vars

\* grading was invoked with a rubric text of white space only
C5_Witness ==
    /\ lastEvent.op = "handleGradeSubmission"
    /\ ~lastEvent.issued
    /\ rubricJson # <<>>
    /\ Blank(rubricJson)
    /\ submissionFile # JSNull
    /\ gradingWebhookUrl # ""
    /\ gradingError = ErrorMessage(MissingRubricMessage)
    /\ sent["grade"] = 0

(***************************************************************************)
(* C6                                                                      *)
(***************************************************************************)
\* C6: after an answer with a failure status, sendWebhookRequest has thrown the
\* error whose message is 'Error <status>: <statusText or fallback>' and whose
\* details is the pretty-printed body when the body parses as JSON and the raw
\* body otherwise, and the calling action stores exactly that error.
C6_FailureCarriesPrettyDetails ==
    \A a \in ActionNames :
        (/\ lastEvent.op = ContinuationOf(a)
         /\ lastAnswer.kind = "response"
         /\ ~IsOk(lastAnswer.status)) =>
            LET described ==
                    [t |-> "err",
                     message |->
                         "Error " \o ToString(lastAnswer.status) \o ": "
                             \o (IF lastAnswer.statusText = ""
                                 THEN "al invocar el webhook"
                                 ELSE lastAnswer.statusText),
                     details |->
                         IF JSONParse(lastAnswer.body).ok
                         THEN JSONStringify(JSONParse(lastAnswer.body).v)
                         ELSE lastAnswer.body]
            IN  /\ lastEvent.returned = [threw |-> TRUE, error |-> described]
                /\ ErrorOf(a) = described

(***************************************************************************)
(* C7                                                                      *)
(***************************************************************************)
\* C7: after an answer with a success status, sendWebhookRequest has returned
\* the parsed value of every body that parses as JSON, null included, and the
\* raw body text of every body that does not.
C7_SuccessReturnsParsedValue ==
    \A a \in ActionNames :
        (/\ lastEvent.op = ContinuationOf(a)
         /\ lastAnswer.kind = "response"
         /\ IsOk(lastAnswer.status)) =>
            lastEvent.returned =
                [threw |-> FALSE,
                 value |-> IF JSONParse(lastAnswer.body).ok
                           THEN JSONParse(lastAnswer.body).v
                           ELSE [t |-> "str", s |-> lastAnswer.body]]

(***************************************************************************)
(* C8                                                                      *)
(***************************************************************************)
\* the stored response of grading and of the upload; the rubric text, which
\* generation, import and preset selection all write by design, is left out
ResponseOf(a) ==
    CASE a = "generate" -> JSNull
      [] a = "grade" -> gradingResponse
      [] a = "upload" -> spreadsheetResponse

\* C8: a step of generate, grade, upload, import or preset selection leaves the
\* error, the result and the busy flag of every other action unchanged; a failed
\* import or a preset selection neither writes nor clears the rubric error.
C8_ErrorsStayLocal ==
    [][LET StepsOf(k) ==
               CASE k \in ActionNames -> {HandlerOf(k), ContinuationOf(k)}
                 [] k = "import" -> {"handleRubricImport", "handleRubricImportRead"}
                 [] k = "preset" -> {"handlePresetRubricSelection"}
       IN  \A k \in ActionNames \cup {"import", "preset"} :
               lastEvent'.op \in StepsOf(k) =>
                   \A a \in ActionNames \ {k} :
                       /\ ErrorOf(a)' = ErrorOf(a)
                       /\ ResponseOf(a)' = ResponseOf(a)
                       /\ Busy(a)' = Busy(a)]_vars

(***************************************************************************)
(* C9                                                                      *)
(***************************************************************************)
\* C9: with a transport that eventually answers or rejects, every request issued
\* is eventually settled with the busy flag of its action false, and the busy
\* flag turns true only in a step where the user invokes the action.
C9_EveryRequestSettles ==
    /\ \A a \in ActionNames :
           (Outstanding(a) # {}) ~> (Outstanding(a) = {} /\ ~Busy(a))
    /\ [][\A a \in ActionNames : (~Busy(a) /\ Busy(a)') => Invoked(a)]_vars
    /\ [](\A a \in ActionNames : Busy(a) <=> Outstanding(a) # {})

\* a grading request the transport rejected has settled
C9_Witness ==
    /\ lastEvent.op = "handleGradeSubmissionSettled"
    /\ lastAnswer.kind = "reject"
    /\ Outstanding("grade") = {}
    /\ ~isGrading
    /\ gradingError # JSNull
    /\ sent["grade"] = 1

(***************************************************************************)
(* C10                                                                     *)
(***************************************************************************)
\* C10: for each action the requests issued are as many as the invocations that
\* passed validation, and a request is issued only in a step where the user
\* invokes the action, one request per invocation.
C10_OneRequestPerInvocation ==
    /\ [](\A a \in ActionNames : sent[a] = passed[a])
    /\ [][\A a \in ActionNames :
             /\ sent'[a] # sent[a] => (Invoked(a) /\ sent'[a] = sent[a] + 1)
             /\ Outstanding(a)' \subseteq Outstanding(a) \cup
                    {r \in inflight' : r.action = a /\ r.n = sent[a] + 1}]_vars

\* a generation settled, and a later invocation that failed validation issued nothing
C10_Witness ==
    /\ lastEvent.op = "handleGenerateRubric"
    /\ ~lastEvent.issued
    /\ sent["generate"] = 1
    /\ passed["generate"] = 1
    /\ Outstanding("generate") = {}

(***************************************************************************)
(* C11                                                                     *)
(***************************************************************************)
\* C11: when an action that was invoked again settles with success, the error of
\* that action is empty: neither an error of an earlier failed attempt nor any
\* other error is stored for it.
C11_ReinvocationSucceedsClean ==
    \A a \in ActionNames :
        (/\ lastEvent.op = ContinuationOf(a)
         /\ sent[a] >= 2
         /\ ~lastEvent.returned.threw) =>
            ErrorOf(a) = JSNull

(***************************************************************************)
(* C12                                                                     *)
(***************************************************************************)
\* C12: when the read of an imported file ends with a text that does not parse as
\* JSON, the rubric error becomes the fixed message 'El archivo no contiene un
\* JSON valido.', no request is issued, and the rubric text and the provenance
\* stay as they were.
C12_ImportRejectsNonJson ==
    [][\A i \in 1..Len(reading) :
          (/\ lastEvent'.op = "handleRubricImportRead"
           /\ reading' = SubSeq(reading, 1, i - 1) \o SubSeq(reading, i + 1, Len(reading))
           /\ reading[i].readable
           /\ ~JSONParse(reading[i].text).ok) =>
              /\ rubricError' = [t |-> "err", message |-> "El archivo no contiene un JSON valido."]
              /\ UNCHANGED <<rubricJson, rubricSource, inflight, sent>>]_vars

\* a rubric was imported, then a file that is not JSON was rejected
C12_Witness ==
    /\ lastEvent = [op |-> "handleRubricImportRead", file |-> "notas.txt"]
    /\ rubricError = ErrorMessage(ImportParseMessage)
    /\ rubricSource = RubricSource("importada")
    /\ rubricJson # <<>>
    /\ reading = <<>>

(***************************************************************************)
(* C13                                                                     *)
(***************************************************************************)
\* C13: the rubric text and the provenance change only in a successful
\* generation, a successful import or a preset selection, and each of these
\* writes both: (generation output, 'generada'), (pretty-printed file content,
\* 'importada'), (pretty-printed preset, 'preestablecida'); the pair is the one
\* of the operation that completed last, whatever was in flight meanwhile.
C13_RubricAndProvenanceTogether ==
    [][/\ rubricVars' # rubricVars =>
             lastEvent'.op \in {"handleGenerateRubricSettled", "handleRubricImportRead",
                                "handlePresetRubricSelection"}
       /\ (lastEvent'.op = "handleGenerateRubricSettled" /\ ~lastEvent'.returned.threw) =>
             /\ rubricJson' =
                    IF lastEvent'.returned.value.t = "str"
                    THEN extractIframeContent(lastEvent'.returned.value.s)
                    ELSE JSONStringify(lastEvent'.returned.value)
             /\ rubricSource' = RubricSource("generada")
       /\ \A i \in 1..Len(reading) :
             (/\ lastEvent'.op = "handleRubricImportRead"
              /\ reading' = SubSeq(reading, 1, i - 1) \o SubSeq(reading, i + 1, Len(reading))
              /\ reading[i].readable
              /\ JSONParse(reading[i].text).ok
              /\ Truthy(JSONParse(reading[i].text).v)) =>
                 /\ rubricJson' = JSONStringify(JSONParse(reading[i].text).v)
                 /\ rubricSource' = RubricSource("importada")
       /\ (lastEvent'.op = "handlePresetRubricSelection" /\ selectedPresetRubricId' # "") =>
             \E rubric \in PRESET_RUBRICS :
                 /\ rubric.id = selectedPresetRubricId'
                 /\ rubricJson' = JSONStringify(rubric.content)
                 /\ rubricSource' = RubricSource("preestablecida")]_vars

\* an import completed while a generation request is in flight
C13_Witness ==
    /\ lastEvent.op = "handleRubricImportRead"
    /\ rubricSource = RubricSource("importada")
    /\ rubricJson # <<>>
    /\ Outstanding("generate") # {}
    /\ isGeneratingRubric

(***************************************************************************)
(* C14                                                                     *)
(***************************************************************************)
\* C14: the request a grading invocation issues carries exactly two fields, the
\* rubric text as it is at the invocation (filename rubrica.json, type
\* application/json) and the submission file selected then; an outstanding
\* grading request never changes, whatever changes the rubric meanwhile.
C14_GradingRequestIsASnapshot ==
    [][/\ sent'["grade"] > sent["grade"] =>
             \E r \in inflight' \ inflight :
                 /\ r.action = "grade"
                 /\ r.method = "POST"
                 /\ r.url = gradingWebhookUrl
                 /\ r.body = <<[name |-> "rubric", value |-> rubricJson,
                                type |-> "application/json", filename |-> "rubrica.json"],
                               [name |-> "submission", value |-> submissionFile]>>
                 /\ inflight' = inflight \cup {r}
       /\ sent'["grade"] = sent["grade"] =>
             Outstanding("grade")' \subseteq Outstanding("grade")]_vars

\* the rubric was replaced by an import while the grading request is outstanding
C14_Witness ==
    /\ lastEvent.op = "handleRubricImportRead"
    /\ rubricSource = RubricSource("importada")
    /\ \E r \in Outstanding("grade") :
           /\ r.body[1].value # rubricJson
           /\ r.body[1].value # <<>>
           /\ r.body[2].value = submissionFile

(***************************************************************************)
(* C15                                                                     *)
(***************************************************************************)
\* C15: an upload request is issued only when the spreadsheet URL, the sheet
\* name and the student name are not blank, and it carries exactly the seven
\* text fields spreadsheet_url, sheet_name, alumno, nota, resumen_por_criterios,
\* fortalezas, recomendaciones with the values of the form, untrimmed.
C15_UploadCarriesSevenFields ==
    [][sent'["upload"] > sent["upload"] =>
          /\ ~Blank(spreadsheetUrl)
          /\ ~Blank(spreadsheetSheetName)
          /\ ~Blank(spreadsheetStudentName)
          /\ \E r \in inflight' \ inflight :
                 /\ r.action = "upload"
                 /\ r.method = "POST"
                 /\ r.url = spreadsheetWebhookUrl
                 /\ r.body = <<[name |-> "spreadsheet_url", value |-> spreadsheetUrl],
                               [name |-> "sheet_name", value |-> spreadsheetSheetName],
                               [name |-> "alumno", value |-> spreadsheetStudentName],
                               [name |-> "nota", value |-> spreadsheetGrade],
                               [name |-> "resumen_por_criterios",
                                value |-> spreadsheetSummaryByCriteria],
                               [name |-> "fortalezas", value |-> spreadsheetStrengths],
                               [name |-> "recomendaciones",
                                value |-> spreadsheetRecommendations]>>
                 /\ inflight' = inflight \cup {r}]_vars

\* an upload is outstanding whose required fields end with a space and whose
\* optional fields are empty
C15_Witness ==
    /\ lastEvent.op = "handleUploadToSpreadsheet"
    /\ lastEvent.issued
    /\ spreadsheetUrl = <<"a", " ">>
    /\ spreadsheetGrade = <<>>
    /\ \E r \in Outstanding("upload") :
           /\ Len(r.body) = 7
           /\ r.body[1].value = <<"a", " ">>
           /\ r.body[4].value = <<>>

(***************************************************************************)
(* C16                                                                     *)
(***************************************************************************)
\* C16: when the transport rejects the request of an action, the action stores an
\* error, stores no result, has its busy flag false again, and the error, the
\* response and the busy flag of the other actions are as they were.
C16_RejectionIsStoredLocally ==
    [][\A a \in ActionNames :
          (lastEvent'.op = ContinuationOf(a) /\ lastAnswer'.kind = "reject") =>
              /\ ErrorOf(a)' # JSNull
              /\ ErrorOf(a)' = lastAnswer'.reason
              /\ ResponseOf(a)' = JSNull
              /\ UNCHANGED rubricVars
              /\ ~Busy(a)'
              /\ \A b \in ActionNames \ {a} :
                     /\ ErrorOf(b)' = ErrorOf(b)
                     /\ ResponseOf(b)' = ResponseOf(b)
                     /\ Busy(b)' = Busy(b)]_vars

\* the upload request was rejected by the transport
C16_Witness ==
    /\ lastEvent.op = "handleUploadToSpreadsheetSettled"
    /\ lastAnswer.kind = "reject"
    /\ spreadsheetError = [t |-> "err", message |-> "Failed to fetch"]
    /\ spreadsheetResponse = JSNull
    /\ ~isUploadingSpreadsheet
    /\ Outstanding("upload") = {}

(***************************************************************************)
(* C17                                                                     *)
(***************************************************************************)
\* C17: when grading or the upload is answered with a success status, the stored
\* response is extractIframeContent of the body if the body is not JSON, is
\* extractIframeContent of the string if the body is a JSON string, and is the
\* parsed JSON value unchanged otherwise.
C17_StoredResponseIsExtracted ==
    \A a \in {"grade", "upload"} :
        (/\ lastEvent.op = ContinuationOf(a)
         /\ lastAnswer.kind = "response"
         /\ IsOk(lastAnswer.status)) =>
            ResponseOf(a) =
                IF ~JSONParse(lastAnswer.body).ok
                THEN [t |-> "str", s |-> extractIframeContent(lastAnswer.body)]
                ELSE IF JSONParse(lastAnswer.body).v.t = "str"
                THEN [t |-> "str",
                      s |-> extractIframeContent(JSONParse(lastAnswer.body).v.s)]
                ELSE JSONParse(lastAnswer.body).v

(***************************************************************************)
(* C18                                                                     *)
(***************************************************************************)
\* C18: for a text the iframe pattern does not match, extractIframeContent
\* returns the text with every backslash followed by n turned into one line
\* break, read from left to right, and every other character as it was.
C18_PlainTextOnlyConvertsBackslashN ==
    (callResult # JSNull /\ callArgument \in PlainTexts \cup NearMisses) =>
        callResult =
            [t |-> "str",
             s |-> LET n == Len(callArgument)
                       converted[i \in 1..(n + 1)] ==
                           IF i > n THEN <<>>
                           ELSE IF i < n /\ callArgument[i] = "\\" /\ callArgument[i + 1] = "n"
                           THEN <<"\n">> \o converted[i + 2]
                           ELSE <<callArgument[i]>> \o converted[i + 1]
                   IN  converted[1]]

\* a text with two backslash-n pairs was converted
C18_Witness ==
    /\ callArgument = <<"\\", "n", "\\", "n">>
    /\ callResult = [t |-> "str", s |-> <<"\n", "\n">>]

(***************************************************************************)
(* C19, C20                                                                *)
(***************************************************************************)
\* the value with each of &quot; &lt; &gt; &amp; replaced by its character in one
\* pass from left to right, so that nothing a replacement produced is read again
DecodedOnce(value) ==
    LET n == Len(value)
        decoded[i \in 1..(n + 1)] ==
            IF i > n THEN <<>>
            ELSE IF HasAt(value, i, <<"&", "q", "u", "o", "t", ";">>)
            THEN <<"\"">> \o decoded[i + 6]
            ELSE IF HasAt(value, i, <<"&", "l", "t", ";">>)
            THEN <<"<">> \o decoded[i + 4]
            ELSE IF HasAt(value, i, <<"&", "g", "t", ";">>)
            THEN <<">">> \o decoded[i + 4]
            ELSE IF HasAt(value, i, <<"&", "a", "m", "p", ";">>)
            THEN <<"&">> \o decoded[i + 5]
            ELSE <<value[i]>> \o decoded[i + 1]
    IN  decoded[1]

\* C19: for a text holding an iframe tag with a srcdoc attribute,
\* extractIframeContent returns the attribute value with its entities decoded and
\* its backslash-n pairs converted, and nothing of the markup around it; for an
\* empty attribute value it returns the empty text.
C19_ResultComesFromCapturedValue ==
    \A c \in IframeCases :
        (callResult # JSNull /\ callArgument = IframeText(c)) =>
            callResult =
                [t |-> "str", s |-> ReplaceAll(DecodedOnce(c.value), BackslashN, Newline)]

\* C20: for a text holding an iframe tag whose srcdoc value is not empty, the
\* result is the value with each entity replaced exactly once: what a replacement
\* produced is not decoded again, &amp;lt; gives &lt; and not <.
C20_EntitiesDecodedOnce ==
    \A c \in IframeCases :
        (callResult # JSNull /\ callArgument = IframeText(c) /\ c.value # <<>>) =>
            /\ callResult.t = "str"
            /\ callResult.s = ReplaceAll(DecodedOnce(c.value), BackslashN, Newline)

\* the value &amp;lt; was decoded to &lt;
C20_Witness ==
    /\ callArgument = <<"<", "i", "f", "r", "a", "m", "e", " ", "s", "r", "c", "d", "o", "c", "=", "\"",
                        "&", "a", "m", "p", ";", "l", "t", ";", "\"", ">">>
    /\ callResult = [t |-> "str", s |-> <<"&", "l", "t", ";">>]

(***************************************************************************)
(* C21                                                                     *)
(***************************************************************************)
\* C21: a call of a JSON utility returns and never raises.  parseJsonSafely
\* returns the value a valid JSON text denotes (the text a value serializes to,
\* bare or between white space, and {"x":1}) and null for a malformed text.
\* formatJson returns the serialization of its argument indented by two spaces,
\* which parses back to the argument; when the serialization fails it returns the
\* argument if it is a string and the empty text if not.
C21_JsonUtilitiesNeverRaise ==
    callResult # JSNull =>
        /\ ~callResult.threw
        /\ callArgument.fn = "parseJsonSafely" =>
              /\ \A v \in JsonValues :
                    callArgument.text \in {JSONStringify(v),
                                           <<" ">> \o JSONStringify(v) \o <<"\n">>}
                        => callResult.value = v
              /\ callArgument.text = <<"{", "\"", "x", "\"", ":", "1", "}">> =>
                    callResult.value = [t |-> "obj",
                                        members |-> <<[k |-> <<"x">>,
                                                       v |-> [t |-> "num", n |-> 1]]>>]
              /\ callArgument.text \in MalformedTexts => callResult.value = JSNull
        /\ callArgument.fn = "formatJson" =>
              IF callArgument.value \in JsonValues
              THEN /\ callResult.value = JSONStringify(callArgument.value)
                   /\ JSONParse(callResult.value) = [ok |-> TRUE, v |-> callArgument.value]
                   /\ callArgument.value = [t |-> "obj",
                                            members |-> <<[k |-> <<"x">>,
                                                           v |-> [t |-> "num", n |-> 1]]>>]
                          => callResult.value =
                                 <<"{", "\n", " ", " ", "\"", "x", "\"", ":", " ", "1", "\n", "}">>
              ELSE callResult.value = IF callArgument.value.t = "str"
                                      THEN callArgument.value.s
                                      ELSE <<>>

\* formatJson was called with a BigInt, whose serialization fails, and returned
\* the empty text
C21_Witness ==
    /\ callArgument = [fn |-> "formatJson", value |-> [t |-> "bigint", n |-> 1]]
    /\ callResult = [threw |-> FALSE, value |-> <<>>]

(***************************************************************************)
(* C22                                                                     *)
(***************************************************************************)
\* C22: in every reachable state and for each of generate, grade and upload, the
\* busy flag of the action is true exactly when a request of the action is
\* outstanding.
C22_BusyIffOutstanding ==
    \A a \in ActionNames : Busy(a) <=> Outstanding(a) # {}

\* a generation has settled and a grading request is outstanding
C22_Witness ==
    /\ sent["generate"] = 1
    /\ Outstanding("generate") = {}
    /\ ~isGeneratingRubric
    /\ Outstanding("grade") # {}
    /\ isGrading

(***************************************************************************)
(* C23                                                                     *)
(***************************************************************************)
\* C23: in every reachable state the grading result and the grading error are
\* not both present, and the spreadsheet result and the spreadsheet error are not
\* both present, also after an invocation that fails validation and follows a
\* successful one.
C23_ResultAndErrorExclusive ==
    /\ ~(gradingResponse # JSNull /\ gradingError # JSNull)
    /\ ~(spreadsheetResponse # JSNull /\ spreadsheetError # JSNull)

(***************************************************************************)
(* C24                                                                     *)
(***************************************************************************)
\* C24: while a request of an action is outstanding, the error of that action is
\* empty; for the generation also when the user imports a file or selects a
\* preset during the request.
C24_NoErrorWhileInFlight ==
    \A a \in ActionNames : Outstanding(a) # {} => ErrorOf(a) = JSNull

(***************************************************************************)
(* C25                                                                     *)
(***************************************************************************)
\* C25: in every reachable state, a provenance that is set comes with a rubric
\* that is present, its text not empty once trimmed; a generation answered with
\* an empty or blank body does not leave the provenance set without a rubric.
C25_ProvenanceImpliesRubric ==
    rubricSource # JSNull => hasRubric

(***************************************************************************)
(* C26                                                                     *)
(***************************************************************************)
\* C26: in every reachable state where a rubric is present, the rubric text
\* parses as JSON, and so does the rubric field of every grading request; also
\* after a generation answered with plain text or HTML.
C26_RubricIsJson ==
    /\ hasRubric => JSONParse(rubricJson).ok
    /\ \A r \in Outstanding("grade") : JSONParse(r.body[1].value).ok

(***************************************************************************)
(* C27                                                                     *)
(***************************************************************************)
\* C27: when the read of an imported file ends with a text that is valid JSON,
\* the documents null, false, 0 and "" included, the rubric text becomes the
\* document pretty-printed, the provenance becomes 'importada' and the rubric
\* error is empty.
C27_ImportAcceptsEveryJson ==
    [][\A i \in 1..Len(reading) :
          (/\ lastEvent'.op = "handleRubricImportRead"
           /\ reading' = SubSeq(reading, 1, i - 1) \o SubSeq(reading, i + 1, Len(reading))
           /\ reading[i].readable
           /\ JSONParse(reading[i].text).ok) =>
              /\ rubricJson' = JSONStringify(JSONParse(reading[i].text).v)
              /\ rubricSource' = [t |-> "source", name |-> "importada"]
              /\ rubricError' = JSNull]_vars

(***************************************************************************)
(* C28                                                                     *)
(***************************************************************************)
\* C28: a rubric generation that fails leaves the rubric text and the provenance
\* as they were: the invocation that fails validation, the invocation that issues
\* the request, and the continuation of a request answered with an HTTP failure
\* or rejected by the network, each leave both unchanged.
C28_FailedGenerationKeepsRubric ==
    [][/\ lastEvent'.op = "handleGenerateRubric" /\ userEvents' = userEvents + 1
          => UNCHANGED <<rubricJson, rubricSource>>
       /\ (/\ lastEvent'.op = "handleGenerateRubricSettled"
           /\ Outstanding("generate")' # Outstanding("generate")
           /\ (lastAnswer'.kind = "reject" \/ ~IsOk(lastAnswer'.status)))
          => UNCHANGED <<rubricJson, rubricSource>>]_vars

\* a generation was answered with an HTTP failure while an imported rubric is
\* held, and the rubric is still there
C28_Witness ==
    /\ lastEvent.op = "handleGenerateRubricSettled"
    /\ lastEvent.returned.threw
    /\ lastAnswer.kind = "response"
    /\ lastAnswer.status = 500
    /\ rubricSource = RubricSource("importada")
    /\ hasRubric
    /\ rubricError # JSNull

(***************************************************************************)
(* C29                                                                     *)
(***************************************************************************)
\* C29: once the reset effects have run, a selected course comes with a selected
\* university, and a selected preset comes with a selected course that is the
\* course of that preset; a step that changes the university or the course
\* leaves the preset selection empty and the rubric text and the provenance as
\* they were.
C29_SelectionsStayConsistent ==
    /\ [](/\ selectedCourse # "" => selectedUniversity # ""
          /\ selectedPresetRubricId # "" =>
                /\ selectedCourse # ""
                /\ \E rubric \in PRESET_RUBRICS :
                       /\ rubric.id = selectedPresetRubricId
                       /\ rubric.courseId = selectedCourse)
    /\ [][(selectedUniversity' # selectedUniversity \/ selectedCourse' # selectedCourse) =>
              /\ selectedPresetRubricId' = ""
              /\ UNCHANGED <<rubricJson, rubricSource>>]_vars

\* with a preset of programacion-1 selected, the user changed the university:
\* the course and the preset selection are empty and the preset rubric is kept
C29_Witness ==
    /\ lastEvent.op = "setSelectedUniversity"
    /\ selectedUniversity = "utn-frba"
    /\ selectedCourse = ""
    /\ selectedPresetRubricId = ""
    /\ rubricSource = RubricSource("preestablecida")
    /\ hasRubric

(***************************************************************************)
(* C30                                                                     *)
(***************************************************************************)
\* C30: in the step where the busy flag of an action goes from true to false, the
\* request has stored exactly one of a result and an error.  Answered with
\* success, it stored a result (for the generation the rubric with provenance
\* 'generada') and did not write the error; answered with a failure or rejected,
\* it stored an error and did not write the result.  For grading and upload
\* exactly one of the response and the error is then present.
C30_SettlesWithResultOrError ==
    [][\A a \in ActionNames :
          (Busy(a) /\ ~Busy(a)') =>
              /\ IF lastAnswer'.kind = "reject" \/ ~IsOk(lastAnswer'.status)
                 THEN /\ ErrorOf(a)' # JSNull
                      /\ ResponseOf(a)' = ResponseOf(a)
                      /\ a = "generate" => UNCHANGED <<rubricJson, rubricSource>>
                 ELSE /\ ResultStored(a)'
                      /\ ErrorOf(a)' = ErrorOf(a)
              /\ a # "generate" => (ResponseOf(a)' # JSNull) # (ErrorOf(a)' # JSNull)]_vars

\* a grading request was answered 200 with an empty body: the empty text is the
\* stored result and no error is stored
C30_Witness ==
    /\ lastEvent.op = "handleGradeSubmissionSettled"
    /\ lastAnswer.kind = "response"
    /\ lastAnswer.status = 200
    /\ lastAnswer.body = <<>>
    /\ ~isGrading
    /\ gradingResponse = [t |-> "str", s |-> <<>>]
    /\ gradingError = JSNull

====
